---- MODULE Spec2Model ----
(***************************************************************************)
(* node-auth-api: registration, login and the token-gated profile route.   *)
(*                                                                         *)
(* Every HTTP request is a process in a slot of Reqs.  A handler runs      *)
(* atomically up to its next `await`; the awaited call (a store query,     *)
(* bcrypt) returns or throws in a later step, so the steps of concurrent   *)
(* requests interleave exactly at the awaits, as on the Node event loop.   *)
(***************************************************************************)
EXTENDS Integers, Sequences, FiniteSets, TLC

(* ------------------------------ bounds -------------------------------- *)

\* Requests in flight at the same time.
NumReqs == 2
\* Requests the server accepts in one behaviour.
MaxRequests == 3
\* The clock runs from 0 to MaxTime ticks.
MaxTime == 2
\* Clock ticks per hour (the granularity of the clock).
TicksPerHour == 1
\* Distinct salts bcrypt may draw.
NumSalts == 1

(* --------------------------- program constants ------------------------- *)

\* bcrypt.hash(password, 10)
BcryptRounds == 10
\* authHeader.substring(7)
BearerLen == 7
\* jwt.sign(..., { expiresIn: "1h" })
ExpiresInHours == 1

(* ------------------------------ values -------------------------------- *)

Reqs == 1..NumReqs
Salts == 1..NumSalts

\* A missing or empty body field, header or environment variable: every
\* value that `!x` takes for absent.
Missing == ""

Emails == {"a@x.com", "b@x.com"}
Passwords == {"pw123", "hunter2"}

\* Strings the gate takes apart are sequences of symbols: a character is
\* [ch |-> c], a compact JWT is one symbol [payload |-> ..., sig |-> ...].
Ch(c) == [ch |-> c]
Str(s) == [i \in 1..Len(s) |-> Ch(s[i])]

\* The value of JWT_SECRET in a configured process, and a key that is not it.
ProcessSecret == "test-secret-key"
OtherSecret == "not-the-secret"

ExpiresIn == ExpiresInHours * TicksPerHour

None == <<>>
Some(x) == <<x>>

VARIABLES
    users,       \* the users table, rows in insertion order
    secret,      \* process.env.JWT_SECRET (Missing when unset)
    now,         \* the clock
    req,         \* req[r]: the request in slot r and its handler's position
    accepted,    \* requests accepted so far
    registered   \* history: the <<email, password>> pairs answered 201

vars == <<users, secret, now, req, accepted, registered>>

(* --------------------------- AuthService ------------------------------ *)

\* bcrypt.hash(password, 10): a salted one-way digest, written as the
\* record of what went into it.
HashPassword(password, salt) ==
    [bcrypt |-> [rounds |-> BcryptRounds, salt |-> salt, digest |-> password]]

\* bcrypt.compare(password, hashedPassword): false for anything that is
\* not a bcrypt string of this password.
ComparePassword(password, hashedPassword) ==
    /\ "bcrypt" \in DOMAIN hashedPassword
    /\ hashedPassword.bcrypt.digest = password

\* The HMAC of a payload under a key.
Hmac(payload, key) == <<payload, key>>

\* jwt.sign(payload, secret, { expiresIn }): iat is the clock, exp is
\* iat + expiresIn.
JwtSign(id, key, t) ==
    LET payload == [id |-> id, iat |-> t, exp |-> t + ExpiresIn]
    IN  [payload |-> payload, sig |-> Hmac(payload, key)]

Throws == [ok |-> FALSE]
Returns(v) == [ok |-> TRUE, value |-> v]

\* jwt.decode in place of jwt.verify: the signature and the expiry are not
\* checked.
JwtVerifyDecodeOnly(token, key, t) ==
    IF key = Missing THEN Throws
    ELSE IF Len(token) # 1 THEN Throws
    ELSE IF "payload" \notin DOMAIN token[1] THEN Throws
    ELSE Returns(token[1].payload)

\* jwt.verify with { ignoreExpiration: true }.
JwtVerifyIgnoreExpiration(token, key, t) ==
    IF key = Missing THEN Throws
    ELSE IF Len(token) # 1 THEN Throws
    ELSE IF "payload" \notin DOMAIN token[1] THEN Throws
    ELSE IF token[1].sig # Hmac(token[1].payload, key) THEN Throws
    ELSE Returns(token[1].payload)

\* jwt.verify(token, secretOrKey) at time t: throws without a key, for a
\* string that is not a compact JWT, for a signature that is not the
\* payload's under the key, and from the expiry instant on.
JwtVerify(token, key, t) ==
    IF key = Missing THEN Throws
    ELSE IF Len(token) # 1 THEN Throws
    ELSE IF "payload" \notin DOMAIN token[1] THEN Throws
    ELSE IF token[1].sig # Hmac(token[1].payload, key) THEN Throws
    ELSE IF t >= token[1].payload.exp THEN Throws
    ELSE Returns(token[1].payload)

\* generateToken signing with a key read from a misspelt variable.
GenerateTokenWrongKey(userId, key, t) ==
    IF key = Missing THEN Throws
    ELSE Returns(JwtSign(userId, OtherSecret, t))

\* AuthService.generateToken(userId)
GenerateToken(userId, key, t) ==
    IF key = Missing THEN Throws
    ELSE Returns(JwtSign(userId, key, t))

\* AuthService.verifyToken(token)
VerifyToken(token, key, t) ==
    IF key = Missing THEN Throws
    ELSE JwtVerify(token, key, t)

(* --------------------------- UserService ------------------------------ *)

\* A users table without the constraint.
EmailIsNotUnique == FALSE

\* The users table has a unique constraint on email.
EmailIsUnique == TRUE

\* SELECT * FROM users WHERE email = $1; result.rows[0] || null
FindUserByEmail(rows, email) ==
    LET hit == SelectSeq(rows, LAMBDA u : u.email = email)
    IN  IF hit = <<>> THEN None ELSE Some(hit[1])

\* SELECT * FROM users WHERE id = $1
FindUserByIdSelectAll(rows, userId) ==
    LET hit == SelectSeq(rows, LAMBDA u : u.id = userId)
    IN  IF hit = <<>> THEN None ELSE Some(hit[1])

\* SELECT id, email, created_at FROM users WHERE id = $1; result.rows[0] || null
FindUserById(rows, userId) ==
    LET hit == SelectSeq(rows, LAMBDA u : u.id = userId)
    IN  IF hit = <<>> THEN None
        ELSE Some([id |-> hit[1].id, email |-> hit[1].email,
                   created_at |-> hit[1].created_at])

\* INSERT ... ON CONFLICT (email) DO UPDATE SET password = $2: a second
\* insert for an email overwrites the account's password.
CreateUserUpsert(rows, email, hashedPassword, t) ==
    IF FindUserByEmail(rows, email) # None
    THEN Returns([i \in 1..Len(rows) |->
                    IF rows[i].email = email
                    THEN [rows[i] EXCEPT !.password = hashedPassword]
                    ELSE rows[i]])
    ELSE Returns(Append(rows, [id |-> Len(rows) + 1, email |-> email,
                               password |-> hashedPassword, created_at |-> t]))

\* INSERT INTO users (email, password) VALUES ($1, $2): the store rejects
\* a second row with the same email; id and created_at are its defaults.
CreateUser(rows, email, hashedPassword, t) ==
    IF EmailIsUnique /\ FindUserByEmail(rows, email) # None THEN Throws
    ELSE Returns(Append(rows, [id |-> Len(rows) + 1, email |-> email,
                               password |-> hashedPassword, created_at |-> t]))

(* ----------------------------- requests ------------------------------- *)

\* A free slot.  email, password: req.body; authorization:
\* req.headers.authorization; user: req.user; row: the handler's
\* existingUser / user; hashed: its hashedPassword; userId: getProfile's
\* userId; token: login's token; res: the responses written; calls: the
\* service calls made, in order; threw: the error the catch block caught;
\* known: the passwords this email had been registered with (answered
\* 201) when the request arrived.
Idle ==
    [kind |-> "none", pc |-> "idle", email |-> Missing, password |-> Missing,
     authorization |-> None, user |-> None, row |-> None, hashed |-> None,
     userId |-> None, token |-> None, res |-> <<>>, calls |-> <<>>, threw |-> Missing, known |-> {}]

Err(msg) == [error |-> msg]

\* res.status(status).json(body); return
Respond(q, status, body) ==
    [q EXCEPT !.pc = "done", !.res = Append(@, [status |-> status, body |-> body])]

\* await <call>: the handler is suspended at pc until the call settles.
Await(q, call, pc) ==
    [q EXCEPT !.pc = pc, !.calls = Append(@, call)]

\* A synchronous call.
Called(q, call) == [q EXCEPT !.calls = Append(@, call)]

\* A catch block that writes no response and leaves the handler at the
\* failed call, which is then made again.
CaughtAndRetried(q, err) == [q EXCEPT !.threw = err]

\* catch (err) { console.error(...); res.status(500).json(...) }
Caught(q, err) ==
    Respond([q EXCEPT !.threw = err], 500, Err("Internal server error"))

StoreDown == "store unavailable"
UniqueViolation == "duplicate key value violates unique constraint"
BcryptError == "bcrypt error"
NoSecret == "JWT_SECRET is not defined in environment variables"

\* if (!email): the password is not looked at.
InputMissingEmailOnly(email, password) == email = Missing

\* if (!email || !password)
InputMissing(email, password) == email = Missing \/ password = Missing

KnownPasswords(email) == {p \in Passwords : <<email, p>> \in registered}

\* Slot r is free and the server accepts one more request.
Free(r) ==
    /\ req[r].pc = "idle"
    /\ accepted < MaxRequests

(* ------------------------- AuthController.register -------------------- *)

\* Lines 11-20: validate, then await the lookup.
RegisterBegin(q) ==
    IF InputMissing(q.email, q.password)
    THEN Respond(q, 400, Err("Email and password are required"))
    ELSE Await(q, "findUserByEmail", "find")

\* register without the existing-user check.
RegisterFoundNoCheck(q, existingUser) ==
    Await(q, "hashPassword", "hash")

\* register without the return after the 400: the handler goes on to
\* hash and insert, and answers a second time.
RegisterFoundNoReturn(q, existingUser) ==
    IF existingUser # None
    THEN Await(Respond([q EXCEPT !.row = existingUser], 400, Err("User already exists")),
               "hashPassword", "hash")
    ELSE Await(q, "hashPassword", "hash")

\* Lines 21-27: the lookup returned.
RegisterFound(q, existingUser) ==
    IF existingUser # None
    THEN Respond([q EXCEPT !.row = existingUser], 400, Err("User already exists"))
    ELSE Await(q, "hashPassword", "hash")

\* register passing to createUser a value that is not the hash of the
\* submitted password (here the hash of the email).
RegisterHashedWrongInput(q, hashedPassword) ==
    Await([q EXCEPT !.hashed = Some(HashPassword(q.email, hashedPassword.bcrypt.salt))],
          "createUser", "create")

\* Line 28: the hash returned.
RegisterHashed(q, hashedPassword) ==
    Await([q EXCEPT !.hashed = Some(hashedPassword)], "createUser", "create")

\* register failing after the insert has been made.
RegisterCreatedThenFail(q) == Caught(q, StoreDown)

\* Line 30: the insert returned.
RegisterCreated(q) ==
    Respond(q, 201, [message |-> "User registered successfully"])

Register(r) ==
    /\ Free(r)
    /\ \E email \in Emails \cup {Missing}, password \in Passwords \cup {Missing} :
         req' = [req EXCEPT ![r] = RegisterBegin(
                    [Idle EXCEPT !.kind = "register", !.email = email,
                                 !.password = password,
                                 !.known = KnownPasswords(email)])]
    /\ accepted' = accepted + 1
    /\ UNCHANGED <<users, secret, now, registered>>

RegisterFind(r) ==
    /\ req[r].kind = "register"
    /\ req[r].pc = "find"
    /\ \/ req' = [req EXCEPT ![r] = Caught(@, StoreDown)]
       \/ req' = [req EXCEPT ![r] = RegisterFound(@, FindUserByEmail(users, @.email))]
    /\ UNCHANGED <<users, secret, now, accepted, registered>>

RegisterHash(r) ==
    /\ req[r].kind = "register"
    /\ req[r].pc = "hash"
    /\ \/ req' = [req EXCEPT ![r] = Caught(@, BcryptError)]
       \/ \E salt \in Salts :
            req' = [req EXCEPT ![r] = RegisterHashed(@, HashPassword(@.password, salt))]
    /\ UNCHANGED <<users, secret, now, accepted, registered>>

RegisterCreate(r) ==
    /\ req[r].kind = "register"
    /\ req[r].pc = "create"
    /\ LET inserted == CreateUser(users, req[r].email, req[r].hashed[1], now)
       IN  \/ /\ req' = [req EXCEPT ![r] = Caught(@, StoreDown)]
              /\ UNCHANGED <<users, registered>>
           \/ /\ ~inserted.ok
              /\ req' = [req EXCEPT ![r] = Caught(@, UniqueViolation)]
              /\ UNCHANGED <<users, registered>>
           \/ /\ inserted.ok
              /\ users' = inserted.value
              /\ req' = [req EXCEPT ![r] = RegisterCreated(@)]
              /\ registered' = registered \cup {<<req[r].email, req[r].password>>}
    /\ UNCHANGED <<secret, now, accepted>>

(* -------------------------- AuthController.login ---------------------- *)

\* Lines 42-51: validate, then await the lookup.
LoginBegin(q) ==
    IF InputMissing(q.email, q.password)
    THEN Respond(q, 400, Err("Email and password are required"))
    ELSE Await(q, "findUserByEmail", "find")

\* login telling a missing account apart from a wrong password.
LoginFoundLeaky(q, user) ==
    IF user = None
    THEN Respond(q, 404, Err("User not found"))
    ELSE Await([q EXCEPT !.row = user], "comparePassword", "compare")

\* Lines 52-58: the lookup returned.
LoginFound(q, user) ==
    IF user = None
    THEN Respond(q, 401, Err("Invalid credentials"))
    ELSE Await([q EXCEPT !.row = user], "comparePassword", "compare")

\* login issuing the token whatever the comparison returned.
LoginComparedNoCheck(q, isValidPassword, key, t) ==
    LET token == GenerateToken(q.row[1].id, key, t)
        q1 == Called(q, "generateToken")
    IN  IF token.ok
        THEN Respond([q1 EXCEPT !.token = Some(<<token.value>>)],
                     200, [token |-> <<token.value>>])
        ELSE Caught(q1, NoSecret)

\* Lines 59-67: the comparison returned.
LoginCompared(q, isValidPassword, key, t) ==
    IF ~isValidPassword
    THEN Respond(q, 401, Err("Invalid credentials"))
    ELSE LET token == GenerateToken(q.row[1].id, key, t)
             q1 == Called(q, "generateToken")
         IN  IF token.ok
             THEN Respond([q1 EXCEPT !.token = Some(<<token.value>>)],
                          200, [token |-> <<token.value>>])
             ELSE Caught(q1, NoSecret)

Login(r) ==
    /\ Free(r)
    /\ \E email \in Emails \cup {Missing}, password \in Passwords \cup {Missing} :
         req' = [req EXCEPT ![r] = LoginBegin(
                    [Idle EXCEPT !.kind = "login", !.email = email,
                                 !.password = password,
                                 !.known = KnownPasswords(email)])]
    /\ accepted' = accepted + 1
    /\ UNCHANGED <<users, secret, now, registered>>

LoginFind(r) ==
    /\ req[r].kind = "login"
    /\ req[r].pc = "find"
    /\ \/ req' = [req EXCEPT ![r] = Caught(@, StoreDown)]
       \/ req' = [req EXCEPT ![r] = LoginFound(@, FindUserByEmail(users, @.email))]
    /\ UNCHANGED <<users, secret, now, accepted, registered>>

LoginCompare(r) ==
    /\ req[r].kind = "login"
    /\ req[r].pc = "compare"
    /\ \/ req' = [req EXCEPT ![r] = Caught(@, BcryptError)]
       \/ req' = [req EXCEPT ![r] =
                    LoginCompared(@, ComparePassword(@.password, @.row[1].password),
                                  secret, now)]
    /\ UNCHANGED <<users, secret, now, accepted, registered>>

(* ------------------- authMiddleware, ProfileController ---------------- *)

Bearer == Str(<<"B", "e", "a", "r", "e", "r", " ">>)

\* authHeader.startsWith(prefix)
StartsWith(s, prefix) ==
    Len(s) >= Len(prefix) /\ SubSeq(s, 1, Len(prefix)) = prefix

\* authHeader.substring(n)
Substring(s, n) == SubSeq(s, n + 1, Len(s))

\* authHeader.substring(7), whatever the header starts with.
NormalizeTokenAlwaysStrip(authHeader) == Substring(authHeader, BearerLen)

\* The prefix matched without regard to case
\* (authHeader.toLowerCase().startsWith("bearer ")).
NormalizeTokenAnyCase(authHeader) ==
    IF \/ StartsWith(authHeader, Bearer)
       \/ StartsWith(authHeader, Str(<<"b", "e", "a", "r", "e", "r", " ">>))
       \/ StartsWith(authHeader, Str(<<"B", "E", "A", "R", "E", "R", " ">>))
    THEN Substring(authHeader, BearerLen)
    ELSE authHeader

\* authHeader.startsWith("Bearer ") ? authHeader.substring(7) : authHeader
NormalizeToken(authHeader) ==
    IF StartsWith(authHeader, Bearer) THEN Substring(authHeader, BearerLen)
    ELSE authHeader

\* getProfile reading req.user!.iat where it should read req.user!.id.
GetProfileBeginWrongField(q) ==
    Await([q EXCEPT !.userId = Some(q.user[1].iat)], "findUserById", "findById")

\* getProfile, lines 10-12: read req.user!.id, then await the lookup.
GetProfileBegin(q) ==
    Await([q EXCEPT !.userId = Some(q.user[1].id)], "findUserById", "findById")

\* getProfile reading a field of the row before checking that there is one.
GetProfileFoundNullCrashes(q, user) ==
    IF user = None
    THEN Caught(q, "TypeError")
    ELSE Respond(q, 200, user[1])

\* getProfile, lines 14-19: the lookup returned.
GetProfileFound(q, user) ==
    IF user = None
    THEN Respond(q, 404, Err("User not found"))
    ELSE Respond(q, 200, user[1])

\* authMiddleware without the missing-header check: an absent header is
\* verified as the empty token.
AuthMiddlewareNoHeaderCheck(q, key, t) ==
    LET token == IF q.authorization = None THEN <<>>
                 ELSE NormalizeToken(q.authorization[1])
        decoded == JwtVerify(token, key, t)
        q1 == Called(q, "jwt.verify")
    IN  IF decoded.ok
        THEN GetProfileBegin(Called([q1 EXCEPT !.user = Some(decoded.value)], "next"))
        ELSE Respond(q1, 401, Err("Invalid token"))

\* authMiddleware telling an expired token apart from the other invalid
\* tokens.
AuthMiddlewareExpiredMessage(q, key, t) ==
    IF q.authorization = None \/ q.authorization = Some(<<>>)
    THEN Respond(q, 401, Err("No token provided"))
    ELSE LET token == NormalizeToken(q.authorization[1])
             decoded == JwtVerify(token, key, t)
             q1 == Called(q, "jwt.verify")
         IN  IF decoded.ok
             THEN GetProfileBegin(Called([q1 EXCEPT !.user = Some(decoded.value)], "next"))
             ELSE IF JwtVerifyIgnoreExpiration(token, key, t).ok
             THEN Respond(q1, 401, Err("Token expired"))
             ELSE Respond(q1, 401, Err("Invalid token"))

\* authMiddleware calling next() after the try block, so also after a
\* rejection: the handler then reads req.user, which is not set.
AuthMiddlewareNextAfterCatch(q, key, t) ==
    IF q.authorization = None \/ q.authorization = Some(<<>>)
    THEN Respond(q, 401, Err("No token provided"))
    ELSE LET token == NormalizeToken(q.authorization[1])
             decoded == JwtVerify(token, key, t)
             q1 == Called(q, "jwt.verify")
         IN  IF decoded.ok
             THEN GetProfileBegin(Called([q1 EXCEPT !.user = Some(decoded.value)], "next"))
             ELSE Caught(Called(Respond(q1, 401, Err("Invalid token")), "next"),
                         "TypeError")

\* authMiddleware; next() runs the route's handler up to its first await.
AuthMiddleware(q, key, t) ==
    IF q.authorization = None \/ q.authorization = Some(<<>>)
    THEN Respond(q, 401, Err("No token provided"))
    ELSE LET token == NormalizeToken(q.authorization[1])
             decoded == JwtVerify(token, key, t)
             q1 == Called(q, "jwt.verify")
         IN  IF decoded.ok
             THEN GetProfileBegin(Called([q1 EXCEPT !.user = Some(decoded.value)], "next"))
             ELSE Respond(q1, 401, Err("Invalid token"))

\* An id no account has (the store never holds more than MaxRequests
\* rows): the subject of a token that was signed with the process secret
\* for an account that does not exist.
GhostId == MaxRequests + 1

\* The tokens generateToken can have issued by time t: one per account
\* and instant since the account was created.
Issued(rows, key, t) ==
    UNION {{<<JwtSign(rows[i].id, key, iat)>> : iat \in rows[i].created_at..t} :
              i \in 1..Len(rows)}

\* The authorization headers a client may send at time t: tokens the
\* service issued, a token for an id without an account, a token signed
\* with another key, a token whose payload was changed after signing, a
\* string that is no token; each alone and after "Bearer "; and other
\* spellings of the prefix.
Headers(rows, t) ==
    LET fresh == <<JwtSign(GhostId, ProcessSecret, t)>>
        forged == <<JwtSign(GhostId, OtherSecret, t)>>
        tampered == <<[payload |-> [fresh[1].payload EXCEPT !.id = 1],
                       sig |-> fresh[1].sig]>>
        garbage == Str(<<"x">>)
        tokens == Issued(rows, ProcessSecret, t)
                      \cup {fresh, forged, tampered, garbage}
    IN  tokens
        \cup {Bearer \o tok : tok \in tokens}
        \cup {Str(<<"b", "e", "a", "r", "e", "r", " ">>) \o fresh,
              Str(<<"B", "E", "A", "R", "E", "R", " ">>) \o fresh,
              Str(<<"B", "e", "a", "r", "e", "r">>) \o fresh,
              Bearer \o Bearer \o fresh,
              Bearer,
              <<>>}

Profile(r) ==
    /\ Free(r)
    /\ \E authorization \in {None} \cup {Some(h) : h \in Headers(users, now)} :
         req' = [req EXCEPT ![r] = AuthMiddleware(
                    [Idle EXCEPT !.kind = "profile", !.authorization = authorization],
                    secret, now)]
    /\ accepted' = accepted + 1
    /\ UNCHANGED <<users, secret, now, registered>>

ProfileFind(r) ==
    /\ req[r].kind = "profile"
    /\ req[r].pc = "findById"
    /\ \/ req' = [req EXCEPT ![r] = Caught(@, StoreDown)]
       \/ req' = [req EXCEPT ![r] = GetProfileFound(@, FindUserById(users, @.userId[1]))]
    /\ UNCHANGED <<users, secret, now, accepted, registered>>

(* ------------------------------ the rest ------------------------------ *)

\* The response has been sent and the request is over; its slot is free.
Finish(r) ==
    /\ req[r].pc = "done"
    /\ req' = [req EXCEPT ![r] = Idle]
    /\ UNCHANGED <<users, secret, now, accepted, registered>>

Tick ==
    /\ now < MaxTime
    /\ now' = now + 1
    /\ UNCHANGED <<users, secret, req, accepted, registered>>

Init ==
    /\ users = <<>>
    /\ secret \in {ProcessSecret, Missing}
    /\ now = 0
    /\ req = [r \in Reqs |-> Idle]
    /\ accepted = 0
    /\ registered = {}

Next ==
    \/ \E r \in Reqs :
         \/ Register(r) \/ RegisterFind(r) \/ RegisterHash(r) \/ RegisterCreate(r)
         \/ Login(r) \/ LoginFind(r) \/ LoginCompare(r)
         \/ Profile(r) \/ ProfileFind(r)
         \/ Finish(r)
    \/ Tick

Spec == Init /\ [][Next]_vars

\* Every awaited call (store query, bcrypt.hash, bcrypt.compare) settles:
\* it returns or it throws, and the handler waiting for it then runs on.
FairSpec ==
    /\ Spec
    /\ \A r \in Reqs :
         /\ WF_vars(RegisterFind(r)) /\ WF_vars(RegisterHash(r))
         /\ WF_vars(RegisterCreate(r))
         /\ WF_vars(LoginFind(r)) /\ WF_vars(LoginCompare(r))
         /\ WF_vars(ProfileFind(r))

(* ------------------------- reading a request -------------------------- *)

Done(r) == req[r].pc = "done"
Is(r, kind) == req[r].kind = kind
HasCalled(q, call) == \E i \in 1..Len(q.calls) : q.calls[i] = call
\* The response of a finished request.
Response(r) == req[r].res[Len(req[r].res)]
Answered(r, status, body) == req[r].res = <<[status |-> status, body |-> body]>>

InternalError == Err("Internal server error")

\* The account stored under an email, the accounts stored under it.
AccountsOf(email) == {i \in 1..Len(users) : users[i].email = email}

IsJwt(tok) == Len(tok) = 1 /\ "payload" \in DOMAIN tok[1]
SignedBy(tok, key) == IsJwt(tok) /\ tok[1].sig = Hmac(tok[1].payload, key)

\* Request r presents token tok: alone, or after the prefix "Bearer ".
Presents(q, tok) ==
    q.authorization = Some(tok) \/ q.authorization = Some(Bearer \o tok)

\* The tokens generateToken can have issued for the i-th account.
IssuedFor(i) ==
    {<<JwtSign(users[i].id, secret, iat)>> : iat \in users[i].created_at..now}

(* ------------------------------- C1 ----------------------------------- *)

\* A login that arrives after its credentials were registered with 201.
LoginAfter201(r) ==
    /\ Is(r, "login") /\ Done(r)
    /\ req[r].password \in req[r].known

\* C1 as stated: once register(e, p) has returned 201, every later login
\* with (e, p) returns 200 with a token, and GET /profile with that token,
\* before its expiry, returns 200 with the id and email of the account.
C1_Original ==
    /\ \A r \in Reqs : LoginAfter201(r) =>
         /\ Response(r).status = 200
         /\ "token" \in DOMAIN Response(r).body
    /\ \A r \in Reqs, i \in 1..Len(users) :
         (/\ Is(r, "profile") /\ Done(r)
          /\ \E tok \in IssuedFor(i) :
               Presents(req[r], tok) /\ now < tok[1].payload.exp)
         => Answered(r, 200, [id |-> users[i].id, email |-> users[i].email,
                              created_at |-> users[i].created_at])

\* C1, amended: after register(e, p) returned 201, a later login with
\* (e, p) returns 200 with a token whose subject is the id of the account
\* registered under e, unless a store query, the comparison or the signing
\* throws, and then it returns 500; GET /profile with such a token, before
\* its expiry, passes the gate and returns 200 with that account's id and
\* email, unless its store query throws, and then it returns 500.
C1_Amended ==
    /\ \A r \in Reqs : LoginAfter201(r) =>
         IF req[r].threw = Missing
         THEN \E i \in AccountsOf(req[r].email) :
                /\ Response(r).status = 200
                /\ DOMAIN Response(r).body = {"token"}
                /\ Response(r).body.token \in IssuedFor(i)
         ELSE /\ Answered(r, 500, InternalError)
              /\ req[r].threw \in {StoreDown, BcryptError, NoSecret}
    /\ \A r \in Reqs, i \in 1..Len(users) :
         (/\ Is(r, "profile") /\ Done(r)
          /\ \E tok \in IssuedFor(i) :
               Presents(req[r], tok) /\ now < tok[1].payload.exp)
         => /\ HasCalled(req[r], "next")
            /\ IF req[r].threw = Missing
               THEN Answered(r, 200, [id |-> users[i].id, email |-> users[i].email,
                                      created_at |-> users[i].created_at])
               ELSE Answered(r, 500, InternalError) /\ req[r].threw = StoreDown

\* A login after 201 has returned a token, and a profile request that
\* presented that very token got the account of the login's email.
C1_Witness ==
    \E r1, r2 \in Reqs :
        /\ LoginAfter201(r1) /\ Response(r1).status = 200
        /\ Is(r2, "profile") /\ Done(r2)
        /\ req[r2].authorization = Some(Bearer \o Response(r1).body.token)
        /\ Response(r2).status = 200
        /\ Response(r2).body.email = req[r1].email

(* ------------------------------- C2 ----------------------------------- *)

\* Two register requests for one email, each arrived before the email was
\* registered, and neither hit by an unavailable store or a bcrypt error.
RacingRegisters(r1, r2) ==
    /\ r1 # r2
    /\ Is(r1, "register") /\ Done(r1)
    /\ Is(r2, "register") /\ Done(r2)
    /\ req[r1].email = req[r2].email
    /\ ~InputMissing(req[r1].email, req[r1].password)
    /\ ~InputMissing(req[r2].email, req[r2].password)
    /\ req[r1].known = {} /\ req[r2].known = {}
    /\ req[r1].threw \notin {StoreDown, BcryptError}
    /\ req[r2].threw \notin {StoreDown, BcryptError}

\* C2: of two concurrent registrations of one email, exactly one returns
\* 201 and the other returns 400 "User already exists".
C2_Original ==
    \A r1, r2 \in Reqs : RacingRegisters(r1, r2) =>
        \/ /\ Response(r1).status = 201
           /\ Answered(r2, 400, Err("User already exists"))
        \/ /\ Response(r2).status = 201
           /\ Answered(r1, 400, Err("User already exists"))

(* ------------------------------- C3 ----------------------------------- *)

\* A register request for an email that had been registered with 201
\* when it arrived.
RegisterAfter201(r) ==
    /\ Is(r, "register")
    /\ req[r].known # {}
    /\ req[r].password # Missing

\* C3 as stated: after register(e) returned 201, every later register for
\* e returns 400 "User already exists", calls neither hashPassword nor
\* createUser, and the store holds exactly one account with email e.
C3_Original ==
    \A r \in Reqs : RegisterAfter201(r) =>
        /\ ~HasCalled(req[r], "hashPassword")
        /\ ~HasCalled(req[r], "createUser")
        /\ Cardinality(AccountsOf(req[r].email)) = 1
        /\ Done(r) => Answered(r, 400, Err("User already exists"))

\* C3, amended: such a request returns 400 "User already exists" unless
\* its lookup throws, and then it returns 500; either way it calls
\* neither hashPassword nor createUser and the store holds exactly one
\* account with email e.
C3_Amended ==
    \A r \in Reqs : RegisterAfter201(r) =>
        /\ req[r].calls = <<"findUserByEmail">>
        /\ Cardinality(AccountsOf(req[r].email)) = 1
        /\ Done(r) =>
             IF req[r].threw = Missing
             THEN Answered(r, 400, Err("User already exists"))
             ELSE Answered(r, 500, InternalError) /\ req[r].threw = StoreDown

C3_Witness ==
    \E r \in Reqs :
        /\ RegisterAfter201(r) /\ Done(r)
        /\ Answered(r, 400, Err("User already exists"))

(* ------------------------------- C4 ----------------------------------- *)

\* Login r names an email that has no account.
NoSuchAccount(r) ==
    /\ Is(r, "login") /\ Done(r)
    /\ ~InputMissing(req[r].email, req[r].password)
    /\ AccountsOf(req[r].email) = {}

\* Login r names an account that existed when it arrived, with a password
\* other than the one it was registered with.
WrongPassword(r) ==
    /\ Is(r, "login") /\ Done(r)
    /\ req[r].password # Missing
    /\ req[r].known # {}
    /\ req[r].password \notin req[r].known

\* C4 as stated: a login for an email without an account and a login with
\* a wrong password get the same response, 401 "Invalid credentials".
C4_Original ==
    \A r1, r2 \in Reqs : NoSuchAccount(r1) /\ WrongPassword(r2) =>
        /\ req[r1].res = req[r2].res
        /\ Answered(r1, 401, Err("Invalid credentials"))

\* C4, amended: each of the two logins returns 401 "Invalid credentials",
\* the same status and body, unless its store lookup or its password
\* comparison throws, and then that login returns 500.
C4_Amended ==
    \A r1, r2 \in Reqs : NoSuchAccount(r1) /\ WrongPassword(r2) =>
        /\ IF req[r1].threw = Missing
           THEN Answered(r1, 401, Err("Invalid credentials"))
           ELSE Answered(r1, 500, InternalError) /\ req[r1].threw = StoreDown
        /\ IF req[r2].threw = Missing
           THEN Answered(r2, 401, Err("Invalid credentials"))
           ELSE /\ Answered(r2, 500, InternalError)
                /\ req[r2].threw \in {StoreDown, BcryptError}
        /\ req[r1].threw = Missing /\ req[r2].threw = Missing
             => req[r1].res = req[r2].res

C4_Witness ==
    \E r1, r2 \in Reqs :
        /\ NoSuchAccount(r1) /\ WrongPassword(r2)
        /\ HasCalled(req[r2], "comparePassword")
        /\ req[r1].res = req[r2].res
        /\ Answered(r1, 401, Err("Invalid credentials"))

(* ------------------------------- C5 ----------------------------------- *)

\* Token tok verifies under the signing secret now.
Verifies(tok) ==
    /\ secret # Missing
    /\ SignedBy(tok, secret)
    /\ now < tok[1].payload.exp

\* The gate has let request r through with this identity attached.
Allowed(q, identity) ==
    /\ q.user = Some(identity)
    /\ HasCalled(q, "next")
    /\ \A k \in 1..Len(q.res) : q.res[k].status # 401

\* C5: for every token that verifies under the signing secret, the gate
\* allows the request whose header is "Bearer " followed by the token and
\* the request whose header is the token alone, and attaches to both the
\* identity the token carries.
C5_BothHeaderForms ==
    \A r \in Reqs : Is(r, "profile") /\ req[r].authorization # None =>
        \A tok \in {req[r].authorization[1],
                    Substring(req[r].authorization[1], BearerLen)} :
            Presents(req[r], tok) /\ Verifies(tok)
                => Allowed(req[r], tok[1].payload)

\* The same verifying token, once alone and once after "Bearer ", both
\* let through with the token's subject attached.
C5_Witness ==
    \E r1, r2 \in Reqs :
        /\ Is(r1, "profile") /\ Is(r2, "profile")
        /\ req[r1].authorization # None
        /\ LET tok == req[r1].authorization[1]
           IN  /\ Verifies(tok)
               /\ req[r2].authorization = Some(Bearer \o tok)
               /\ Allowed(req[r1], tok[1].payload)
               /\ Allowed(req[r2], tok[1].payload)
               /\ req[r1].user[1].id = tok[1].payload.id

(* ------------------------------- C6 ----------------------------------- *)

\* C6: a request without an authorization header is answered 401 "No
\* token provided"; no verification is attempted, no identity is
\* attached and the handler (and so the store) is never invoked.
C6_NoHeaderRejected ==
    \A r \in Reqs : Is(r, "profile") /\ req[r].authorization = None =>
        /\ Done(r)
        /\ Answered(r, 401, Err("No token provided"))
        /\ ~HasCalled(req[r], "jwt.verify")
        /\ req[r].user = None
        /\ ~HasCalled(req[r], "next")
        /\ ~HasCalled(req[r], "findUserById")

C6_Witness ==
    \E r \in Reqs :
        /\ Is(r, "profile") /\ req[r].authorization = None
        /\ Answered(r, 401, Err("No token provided"))

(* ------------------------------- C7 ----------------------------------- *)

\* Token tok is malformed, or tampered or signed with another secret, or
\* expired at time t.
BadToken(tok, key, t) ==
    \/ ~IsJwt(tok)
    \/ ~SignedBy(tok, key)
    \/ t >= tok[1].payload.exp

Rejected(q, msg) ==
    /\ q.pc = "done"
    /\ q.res = <<[status |-> 401, body |-> Err(msg)]>>
    /\ q.user = None
    /\ ~HasCalled(q, "next")
    /\ ~HasCalled(q, "findUserById")

\* The step in which slot r takes a profile request.
Arrives(r) == req[r].pc = "idle" /\ req'[r].kind = "profile"

\* C7: a request whose token is malformed, tampered, expired or signed
\* with another secret is answered 401 "Invalid token" by the gate; no
\* identity is attached and the handler is never invoked.
C7_InvalidTokenRejected ==
    /\ [][\A r \in Reqs :
            (/\ Arrives(r)
             /\ req'[r].authorization \notin {None, Some(<<>>)}
             /\ BadToken(NormalizeToken(req'[r].authorization[1]), secret, now))
            => Rejected(req'[r], "Invalid token")]_vars
    /\ [](\A r \in Reqs :
            Is(r, "profile") /\ req[r].res # <<>> /\ req[r].res[1].status = 401
                => req[r].user = None /\ ~HasCalled(req[r], "next") /\ Done(r))

\* One request rejected for a correctly signed token that has expired,
\* another for a token signed with another secret.
C7_Witness ==
    \E r1, r2 \in Reqs :
        /\ Is(r1, "profile") /\ Is(r2, "profile")
        /\ req[r1].authorization \notin {None, Some(<<>>)}
        /\ req[r2].authorization \notin {None, Some(<<>>)}
        /\ SignedBy(NormalizeToken(req[r1].authorization[1]), secret)
        /\ SignedBy(NormalizeToken(req[r2].authorization[1]), OtherSecret)
        /\ Rejected(req[r1], "Invalid token")
        /\ Rejected(req[r2], "Invalid token")

(* ------------------------------- C8 ----------------------------------- *)

\* Every token a login can have returned by now.
AllIssued == UNION {IssuedFor(i) : i \in 1..Len(users)}

C9_Original ==
    secret = Missing =>
        \A r \in Reqs :
            /\ ~HasCalled(req[r], "generateToken")
            /\ ~HasCalled(req[r], "jwt.verify")

(* ------------------------------- C10 ---------------------------------- *)

Public(u) == [id |-> u.id, email |-> u.email, created_at |-> u.created_at]

\* C10: no response of GET /profile holds the account's password hash:
\* findUserById returns only id, email and created_at, and the profile
\* handler returns exactly that record.
C10_NoPasswordHash ==
    /\ \A i \in 1..Len(users) :
         FindUserById(users, users[i].id) = Some(Public(users[i]))
    /\ \A r \in Reqs : Is(r, "profile") =>
         \A k \in 1..Len(req[r].res) :
            /\ "password" \notin DOMAIN req[r].res[k].body
            /\ req[r].res[k].status = 200 =>
                 \E i \in 1..Len(users) :
                    /\ users[i].id = req[r].user[1].id
                    /\ req[r].res[k].body = Public(users[i])

C10_Witness ==
    \E r \in Reqs :
        /\ Is(r, "profile") /\ Done(r)
        /\ Response(r).status = 200
        /\ DOMAIN Response(r).body = {"id", "email", "created_at"}

(* ------------------------------- C11 ---------------------------------- *)

\* The subject of the token a request that passed the gate presented.
Subject(q) == NormalizeToken(q.authorization[1])[1].payload.id

\* Profile request r passed the gate, no account has the id its token
\* names, and its lookup returned.
NoAccountFor(r) ==
    /\ Is(r, "profile") /\ Done(r)
    /\ HasCalled(req[r], "next")
    /\ \A i \in 1..Len(users) : users[i].id # Subject(req[r])
    /\ req[r].threw # StoreDown

GateRejected(r) ==
    /\ Is(r, "profile")
    /\ req[r].res # <<>>
    /\ ~HasCalled(req[r], "next")

NoHeader(q) == q.authorization \in {None, Some(<<>>)}

\* C12 as stated: all rejections by the gate, whatever the cause, have
\* the same status and the same body.
C12_Original ==
    \A r1, r2 \in Reqs : GateRejected(r1) /\ GateRejected(r2) =>
        req[r1].res = req[r2].res

\* C12, amended: every rejection by the gate has status 401; its body is
\* "No token provided" when the header is absent or empty and "Invalid
\* token" for every other cause, so that the rejections of a malformed,
\* an expired and a wrongly signed token are the same response.
C12_Amended ==
    /\ \A r \in Reqs : GateRejected(r) =>
         IF NoHeader(req[r])
         THEN Rejected(req[r], "No token provided")
         ELSE Rejected(req[r], "Invalid token")
    /\ \A r1, r2 \in Reqs :
         (/\ GateRejected(r1) /\ GateRejected(r2)
          /\ ~NoHeader(req[r1]) /\ ~NoHeader(req[r2]))
         => req[r1].res = req[r2].res

\* A request without a header and a request with an expired token of the
\* service, both rejected with 401 and with different bodies.
C12_Witness ==
    \E r1, r2 \in Reqs :
        /\ GateRejected(r1) /\ GateRejected(r2)
        /\ req[r1].authorization = None
        /\ ~NoHeader(req[r2])
        /\ SignedBy(NormalizeToken(req[r2].authorization[1]), secret)
        /\ Response(r1).status = 401 /\ Response(r2).status = 401
        /\ Response(r1).body # Response(r2).body

(* ------------------------------- C13 ---------------------------------- *)

\* Request r is a register or a login whose body lacks the email or the
\* password, or holds an empty one.
LacksInput(r) ==
    /\ Is(r, "register") \/ Is(r, "login")
    /\ req[r].email = Missing \/ req[r].password = Missing

\* C13: a register or login without an email or without a password is
\* answered 400 "Email and password are required" before anything else
\* is done: no lookup, no hashing or comparison, no insert, no token.
C13_ValidationFirst ==
    \A r \in Reqs : LacksInput(r) =>
        /\ Done(r)
        /\ Answered(r, 400, Err("Email and password are required"))
        /\ req[r].calls = <<>>
        /\ req[r].row = None /\ req[r].hashed = None /\ req[r].token = None
        /\ req[r].threw = Missing

\* A register without an email and a login without a password, both
\* answered 400.
C13_Witness ==
    \E r1, r2 \in Reqs :
        /\ Is(r1, "register") /\ Is(r2, "login")
        /\ req[r1].email = Missing /\ req[r1].password # Missing
        /\ req[r2].email # Missing /\ req[r2].password = Missing
        /\ Response(r1).status = 400 /\ Response(r2).status = 400
        /\ users # <<>>

(* ------------------------------- C14 ---------------------------------- *)

\* Request q is a register that has ended in a failure response.
RegisterFailed(q) ==
    /\ q.kind = "register" /\ q.pc = "done"
    /\ q.res[Len(q.res)].status \in {400, 500}

\* The step is one of register request r and does not answer 201.
FailingRegisterStep(r) ==
    /\ req'[r] # req[r]
    /\ req'[r].kind = "register"
    /\ \A k \in 1..Len(req'[r].res) : req'[r].res[k].status # 201

Failed(q) == q.threw \in {StoreDown, UniqueViolation, BcryptError}

NoCallTwice(q) ==
    \A j, k \in 1..Len(q.calls) : q.calls[j] = q.calls[k] => j = k

LastCall(q) == q.calls[Len(q.calls)]

\* C15: in register, login and getProfile a store query or a bcrypt call
\* that throws is answered at once with 500 "Internal server error", the
\* only response of the request; the call that failed was made once, is
\* the last call of the request, and the request does nothing after it.
C15_FailsOnce ==
    /\ [](\A r \in Reqs : Failed(req[r]) =>
            /\ Done(r)
            /\ Answered(r, 500, InternalError)
            /\ NoCallTwice(req[r])
            /\ req[r].threw = StoreDown =>
                 LastCall(req[r]) \in {"findUserByEmail", "createUser", "findUserById"}
            /\ req[r].threw = UniqueViolation => LastCall(req[r]) = "createUser"
            /\ req[r].threw = BcryptError =>
                 LastCall(req[r]) \in {"hashPassword", "comparePassword"}
            /\ req[r].token = None)
    /\ [][\A r \in Reqs : ~Failed(req[r]) /\ Failed(req'[r]) =>
            /\ req[r].pc \in {"find", "hash", "create", "compare", "findById"}
            /\ req'[r].calls = req[r].calls
            /\ users' = users]_vars
    /\ [][\A r \in Reqs : Failed(req[r]) =>
            req'[r] = req[r] \/ req'[r] = Idle]_vars

\* A register whose hashing threw and a profile request whose lookup
\* threw, each answered 500.
C15_Witness ==
    \E r1, r2 \in Reqs :
        /\ Is(r1, "register") /\ req[r1].threw = BcryptError
        /\ Is(r2, "profile") /\ req[r2].threw = StoreDown
        /\ Response(r1).status = 500 /\ Response(r2).status = 500
        /\ users # <<>>

(* ------------------------------- C16 ---------------------------------- *)

\* C16: in every reachable state, whatever register, login and profile
\* requests have run and however they interleaved, no two stored accounts
\* have the same email.
C16_EmailUnique ==
    \A i, j \in 1..Len(users) : users[i].email = users[j].email => i = j

\* Two registers of one email both passed the lookup and reached the
\* insert; one was stored and the other's insert was turned down.
C16_Witness ==
    \E r1, r2 \in Reqs :
        /\ Is(r1, "register") /\ Is(r2, "register")
        /\ req[r1].email = req[r2].email
        /\ Done(r1) /\ Response(r1).status = 201
        /\ req[r2].threw = UniqueViolation
        /\ Cardinality(AccountsOf(req[r1].email)) = 1

(* ------------------------------- C17 ---------------------------------- *)

Count(q, call) == Cardinality({k \in 1..Len(q.calls) : q.calls[k] = call})

\* The gate let q through: it called next() once, which ran the handler
\* once, and wrote no response; the responses of q are the handler's.
EndsAllowed(q) ==
    /\ Count(q, "next") = 1
    /\ Count(q, "findUserById") = 1
    /\ q.user # None /\ q.userId # None
    /\ \A k \in 1..Len(q.res) : q.res[k].status \in {200, 404, 500}
    /\ Len(q.res) <= 1

\* The gate answered q with 401 and the handler never ran.
EndsRejected(q) ==
    /\ q.pc = "done"
    /\ Len(q.res) = 1
    /\ q.res[1].status = 401
    /\ q.res[1].body \in {Err("No token provided"), Err("Invalid token")}
    /\ Count(q, "next") = 0
    /\ Count(q, "findUserById") = 0
    /\ q.user = None /\ q.userId = None

\* C17: every request that entered the gate is in exactly one of the two
\* terminal states of the gate, Allowed or Rejected: never in both and
\* never in neither.
C17_AllowedXorRejected ==
    \A r \in Reqs : Is(r, "profile") =>
        /\ EndsAllowed(req[r]) \/ EndsRejected(req[r])
        /\ ~(EndsAllowed(req[r]) /\ EndsRejected(req[r]))

\* One request let through and answered by the handler, another rejected.
C17_Witness ==
    \E r1, r2 \in Reqs :
        /\ Is(r1, "profile") /\ Is(r2, "profile")
        /\ EndsAllowed(req[r1]) /\ Done(r1) /\ Response(r1).status = 200
        /\ EndsRejected(req[r2])
        /\ req[r2].authorization # None

(* ------------------------------- C18 ---------------------------------- *)

\* The handler of profile request r has run.
HandlerRan(r) == Is(r, "profile") /\ HasCalled(req[r], "findUserById")

\* C18: the profile handler runs for a request only after the gate has
\* verified the token of that request and let it through; the identity
\* attached to the request is the payload of its own token and stays so
\* until the request is over; the id the handler looks up, and the row it
\* answers with, are those of the subject of that token, whatever other
\* requests run at the same time.
C18_OwnIdentity ==
    /\ [](\A r \in Reqs : HandlerRan(r) =>
            /\ req[r].calls = <<"jwt.verify", "next", "findUserById">>
            /\ ~NoHeader(req[r])
            /\ secret # Missing
            /\ SignedBy(NormalizeToken(req[r].authorization[1]), secret)
            /\ req[r].user = Some(NormalizeToken(req[r].authorization[1])[1].payload)
            /\ req[r].userId = Some(Subject(req[r]))
            /\ \A k \in 1..Len(req[r].res) :
                 /\ req[r].res[k].status # 401
                 /\ req[r].res[k].status = 200 =>
                      req[r].res[k].body.id = Subject(req[r]))
    /\ [][\A r \in Reqs : Is(r, "profile") /\ req'[r] # Idle =>
            /\ req'[r].user = req[r].user
            /\ req'[r].userId = req[r].userId
            /\ req'[r].authorization = req[r].authorization]_vars
    /\ [][\A r \in Reqs :
            (/\ HandlerRan(r) /\ req[r].pc = "findById"
             /\ req'[r].pc = "done" /\ req'[r].threw = Missing)
            => req'[r].res =
                 GetProfileFound(req[r], FindUserById(users, Subject(req[r]))).res]_vars

\* Two profile requests with tokens of different subjects are in their
\* handlers at the same time, each with the subject of its own token.
C18_Witness ==
    \E r1, r2 \in Reqs :
        /\ HandlerRan(r1) /\ HandlerRan(r2)
        /\ req[r1].pc = "findById" /\ req[r2].pc = "findById"
        /\ Subject(req[r1]) # Subject(req[r2])
        /\ req[r1].userId = Some(Subject(req[r1]))
        /\ req[r2].userId = Some(Subject(req[r2]))
        /\ \E i \in 1..Len(users) : users[i].id = Subject(req[r1])

(* ------------------------------- C19 ---------------------------------- *)

\* A response of q carries a token.
ReturnsToken(q) == \E k \in 1..Len(q.res) : "token" \in DOMAIN q.res[k].body

\* C19: a token is issued only by a login that found an account by the
\* email it was given and whose comparison of the password with that
\* account's stored hash returned true; its subject is the id of that
\* account and it is returned with 200.  A register issues no token, and
\* a login that ends in 400, 401 or 500 neither issues nor returns one.
C19_TokenOnlyByLogin ==
    /\ [](\A r \in Reqs :
            /\ (req[r].token # None \/ ReturnsToken(req[r])) =>
                 /\ Is(r, "login")
                 /\ req[r].calls =
                      <<"findUserByEmail", "comparePassword", "generateToken">>
                 /\ req[r].row # None
                 /\ req[r].row[1].email = req[r].email
                 /\ \E i \in 1..Len(users) : users[i] = req[r].row[1]
                 /\ ComparePassword(req[r].password, req[r].row[1].password)
                 /\ \E iat \in 0..now :
                      req[r].token = Some(<<JwtSign(req[r].row[1].id, secret, iat)>>)
                 /\ Answered(r, 200, [token |-> req[r].token[1]])
            /\ Is(r, "register") =>
                 ~HasCalled(req[r], "generateToken") /\ req[r].token = None
            /\ (Is(r, "login") /\ Done(r) /\ Response(r).status \in {400, 401, 500}) =>
                 req[r].token = None /\ ~ReturnsToken(req[r]))
    /\ [][\A r \in Reqs : req[r].token = None /\ req'[r].token # None =>
            /\ Is(r, "login") /\ req[r].pc = "compare"
            /\ secret # Missing
            /\ req'[r].token = Some(<<JwtSign(req[r].row[1].id, secret, now)>>)]_vars

\* A login with the registered password was issued a token for the
\* account's id, and a login with another password ended 401 without one.
C19_Witness ==
    \E r1, r2 \in Reqs :
        /\ Is(r1, "login") /\ Is(r2, "login")
        /\ req[r1].token # None
        /\ req[r1].token[1][1].payload.id = req[r1].row[1].id
        /\ Done(r2) /\ Response(r2).status = 401
        /\ HasCalled(req[r2], "comparePassword")
        /\ req[r2].token = None

(* ------------------------------- C20 ---------------------------------- *)

\* h is an output of hashPassword for the plaintext p.
IsHashOf(h, p) == \E salt \in Salts : h = HashPassword(p, salt)

\* C20: the value register passes to createUser, and so the value the
\* store holds as the account's password, is an output of hashPassword
\* for the password the request submitted, computed before the insert;
\* it is never the plaintext.
C20_OnlyHashPersisted ==
    /\ [](\A r \in Reqs : Is(r, "register") /\ HasCalled(req[r], "createUser") =>
            /\ req[r].calls = <<"findUserByEmail", "hashPassword", "createUser">>
            /\ req[r].hashed # None
            /\ IsHashOf(req[r].hashed[1], req[r].password))
    /\ [](\A i \in 1..Len(users) :
            /\ DOMAIN users[i].password = {"bcrypt"}
            /\ \E p \in Passwords : IsHashOf(users[i].password, p))
    /\ [](\A pair \in registered : \E i \in AccountsOf(pair[1]) :
            IsHashOf(users[i].password, pair[2]))
    /\ [][\A r \in Reqs : users' # users /\ req'[r] # req[r] =>
            /\ Is(r, "register") /\ req[r].pc = "create"
            /\ users' = Append(users, users'[Len(users')])
            /\ users'[Len(users')].email = req[r].email
            /\ users'[Len(users')].password = req[r].hashed[1]
            /\ IsHashOf(users'[Len(users')].password, req[r].password)]_vars

\* A register answered 201 whose account holds a hash of the password it
\* submitted.
C20_Witness ==
    \E r \in Reqs :
        /\ Is(r, "register") /\ Done(r) /\ Response(r).status = 201
        /\ \E i \in AccountsOf(req[r].email) :
             /\ users[i].password = req[r].hashed[1]
             /\ users[i].password.bcrypt.digest = req[r].password
             /\ users[i].password.bcrypt.rounds = BcryptRounds

(* ------------------------------- C21 ---------------------------------- *)

\* The seven characters B, e, a, r, e, r and a space.
BearerSpace == <<Ch("B"), Ch("e"), Ch("a"), Ch("r"), Ch("e"), Ch("r"), Ch(" ")>>

\* Header h is prefix followed by something.
BeginsWith(h, prefix) ==
    /\ Len(h) >= Len(prefix)
    /\ \A k \in 1..Len(prefix) : h[k] = prefix[k]

\* What follows the first n symbols of h.
After(h, n) == [k \in 1..(Len(h) - n) |-> h[k + n]]

\* C21: the gate takes as the token what follows the prefix when the
\* header begins with exactly "Bearer " (capital B, one space), and the
\* whole header otherwise: "bearer ", "BEARER " and "Bearer" without the
\* space are not stripped, and the prefix is stripped once, so that
\* "Bearer Bearer x" gives "Bearer x".  The gate's verdict is the
\* verification of that token: a valid token after another spelling of
\* the prefix, or after the prefix twice, is rejected as invalid.
C21_ExactPrefixOnce ==
    \A r \in Reqs : Is(r, "profile") /\ ~NoHeader(req[r]) =>
        LET h == req[r].authorization[1]
            token == NormalizeToken(h)
        IN  /\ IF BeginsWith(h, BearerSpace)
               THEN token = After(h, 7)
               ELSE token = h
            /\ BeginsWith(h, <<Ch("b"), Ch("e"), Ch("a"), Ch("r"), Ch("e"), Ch("r"), Ch(" ")>>)
                 => token = h /\ Rejected(req[r], "Invalid token")
            /\ BeginsWith(h, <<Ch("B"), Ch("E"), Ch("A"), Ch("R"), Ch("E"), Ch("R"), Ch(" ")>>)
                 => token = h /\ Rejected(req[r], "Invalid token")
            /\ (BeginsWith(h, <<Ch("B"), Ch("e"), Ch("a"), Ch("r"), Ch("e"), Ch("r")>>)
                /\ ~BeginsWith(h, BearerSpace))
                 => token = h /\ Rejected(req[r], "Invalid token")
            /\ BeginsWith(h, BearerSpace \o BearerSpace)
                 => /\ token = BearerSpace \o After(h, 14)
                    /\ Rejected(req[r], "Invalid token")
            /\ HasCalled(req[r], "next") =>
                 /\ SignedBy(token, secret)
                 /\ req[r].user = Some(token[1].payload)

\* A token that verifies, sent once after "bearer " and once after
\* "Bearer Bearer ": the first is verified with its prefix, the second
\* with one "Bearer " left, and both are rejected.
C21_Witness ==
    \E r1, r2 \in Reqs :
        /\ Is(r1, "profile") /\ Is(r2, "profile")
        /\ ~NoHeader(req[r1]) /\ ~NoHeader(req[r2])
        /\ LET h1 == req[r1].authorization[1]
               h2 == req[r2].authorization[1]
           IN  /\ BeginsWith(h1, <<Ch("b")>>) /\ Len(h1) = 8
               /\ Verifies(After(h1, 7))
               /\ NormalizeToken(h1) = h1
               /\ BeginsWith(h2, BearerSpace \o BearerSpace) /\ Len(h2) = 15
               /\ Verifies(After(h2, 14))
               /\ NormalizeToken(h2) = BearerSpace \o After(h2, 14)
        /\ Rejected(req[r1], "Invalid token")
        /\ Rejected(req[r2], "Invalid token")

(* ------------------------------- C22 ---------------------------------- *)

\* The step is one of the request in slot r.
StepOf(r) == req'[r] # req[r]

\* C22: every account that exists stays as it is, with its id, email,
\* password hash and creation time, and stays in the store; a step of a
\* login or a profile request leaves the store unchanged; a register
\* request adds at most one account, in the step that ends it with 201.
C22_AccountsImmutable ==
    /\ [][/\ Len(users') >= Len(users)
          /\ \A i \in 1..Len(users) : users'[i] = users[i]]_vars
    /\ [][\A r \in Reqs :
            (StepOf(r) /\ (req[r].kind \in {"login", "profile"}
                           \/ req'[r].kind \in {"login", "profile"}))
            => users' = users]_vars
    /\ [][users' # users =>
            /\ Len(users') = Len(users) + 1
            /\ \E r \in Reqs :
                 /\ StepOf(r) /\ Is(r, "register") /\ req[r].pc = "create"
                 /\ req'[r].pc = "done"
                 /\ req'[r].res = <<[status |-> 201,
                                     body |-> [message |-> "User registered successfully"]]>>
                 /\ users'[Len(users')].email = req[r].email]_vars
    /\ [][\A r \in Reqs : Is(r, "register") /\ Done(r) /\ StepOf(r) =>
            req'[r] = Idle /\ users' = users]_vars

\* After the first account a second has been registered and a login to
\* the first has been answered 200: the first account is still the row
\* the login read, with its id, its email and its password hash.
C22_Witness ==
    \E r1, r2 \in Reqs :
        /\ Len(users) = 2
        /\ Is(r1, "login") /\ Done(r1) /\ Response(r1).status = 200
        /\ req[r1].email = users[1].email
        /\ users[1].id = req[r1].row[1].id
        /\ users[1].password = req[r1].row[1].password
        /\ Is(r2, "register") /\ Done(r2) /\ Response(r2).status = 201
        /\ users[2].email = req[r2].email

(* ------------------------------- C23 ---------------------------------- *)

\* Slot r holds a request that has been taken up.
InFlight(r) == req[r].pc # "idle"

\* C23: if every awaited call returns or throws, every register, login
\* and profile request gets a response, and exactly one: a request that
\* has been answered is over and is not answered again, and no request
\* is over without having been answered.
C23_ExactlyOneResponse ==
    /\ \A r \in Reqs : InFlight(r) ~> Done(r)
    /\ [](\A r \in Reqs :
            /\ Len(req[r].res) <= 1
            /\ Done(r) <=> Len(req[r].res) = 1)
    /\ [][\A r \in Reqs :
            /\ req[r].res # <<>> =>
                 req'[r].res = req[r].res \/ req'[r] = Idle
            /\ (InFlight(r) /\ req'[r].pc = "idle") => Done(r)]_vars

\* One request has been answered after an awaited call and another,
\* taken up while the first was running, is answered too, each once.
C23_Witness ==
    \E r1, r2 \in Reqs :
        /\ r1 # r2
        /\ Done(r1) /\ Len(req[r1].calls) = 3 /\ Len(req[r1].res) = 1
        /\ Done(r2) /\ Len(req[r2].calls) = 3 /\ Len(req[r2].res) = 1
        /\ req[r1].kind # req[r2].kind
        /\ Is(r1, "register")

====
